---- MODULE Spec2Model ----
(***************************************************************************)
(* Model of the Smart Bus Garage back end: the driver break lifecycle      *)
(* (app/services/break_service.py, app/api/v1/driver.py) and the daily     *)
(* schedule generator (app/services/rotation_service.py) over the tables   *)
(* of app/models/models.py.                                                *)
(*                                                                         *)
(* Times are integer minutes.  A datetime is minutes since midnight of     *)
(* date 0, so cast(x, Date) is x \div 1440.  NoTime stands for None.       *)
(***************************************************************************)
EXTENDS Integers, Sequences, FiniteSets, TLC

VARIABLES
    drivers,      \* drivers table: id -> row (models.py Driver)
    break_logs,   \* break_logs table, a sequence; the row id is the index
    now,          \* datetime.now(), minutes
    lastCall,     \* the last start_break / end_break call and the state before it
    sessions,     \* the in-flight break requests (api/v1/driver.py)
    vehicles,     \* vehicles table: id -> row
    routes,       \* routes table: id -> row
    db,           \* committed trips, rotation_assignments, tickets, gps_tracking, driver_exchanges
    seq,          \* next primary keys and the number of committed generations
    fk_enforced,  \* whether the store behind DATABASE_URL enforces foreign keys
    lastGen       \* the last generate_daily_schedule call and the store before it

breakVars == <<break_logs, now, lastCall, sessions>>
genVars == <<vehicles, routes, db, seq, fk_enforced, lastGen>>
vars == <<drivers, break_logs, now, lastCall, sessions,
          vehicles, routes, db, seq, fk_enforced, lastGen>>

-----------------------------------------------------------------------------
(* Bounds of the model *)

MaxNow == 67          \* the clock stops here
MaxTrips == 1         \* cap of trips_since_last_break
MaxBreaks == 2        \* cap of break_logs rows

DriverIds == {1, 2}   \* drivers of the break lifecycle
AdminDriverIds == {1} \* drivers when the administrator edits statuses too
TickSteps == {22, 45} \* minutes that pass between two calls
RequestIds == {1, 2}    \* one request per slot in a behaviour

MaxGens == 2          \* committed generations in a behaviour
MaxChildRows == 1     \* tickets + gps_tracking + driver_exchanges rows added
MaxManual == 1        \* rotation assignments the administrator creates

Dates == {1, 2}
DriverCounts == {0, 5}         \* sizes of the drivers table
VehicleCounts == {4}           \* sizes of the vehicles table
RouteCounts == {1}             \* sizes of the routes table

-----------------------------------------------------------------------------
(* Program constants *)

MIN_TRIPS_BEFORE_BREAK == 1
DEFAULT_BREAK_TIME_REMAINING == 60

NoTime == -1

DriverStatus == {"ACTIVE", "ON_TRIP", "ON_BREAK", "OFF_DUTY"}

\* A drivers row as create_driver leaves it: status ACTIVE, column defaults.
DefaultDriver ==
    [status |-> "ACTIVE",
     break_time_remaining |-> DEFAULT_BREAK_TIME_REMAINING,
     total_break_time_today |-> 0,
     break_start_time |-> NoTime,
     trips_since_last_break |-> 0,
     current_break_number |-> 0]

\* max without the floor: the second argument whatever its sign.
Max_SecondArgument(a, b) == b

Max(a, b) == IF a >= b THEN a ELSE b

-----------------------------------------------------------------------------
(* The scheduling tables (models.py) *)

DateOf(t) == t \div 1440
At(D, hh, mm) == D * 1440 + hh * 60 + mm

EmptyStore ==
    [trips |-> {}, assignments |-> {}, tickets |-> {}, gps |-> {}, exchanges |-> {}]

FirstKeys == [trips |-> 1, assignments |-> 1, children |-> 1, commits |-> 0, manual |-> 0]

\* No generate_daily_schedule call to speak of.
NoGen ==
    [op |-> "none", caller |-> "none", raised |-> FALSE,
     date |-> 0, regenerate |-> FALSE,
     result |-> "none", returned |-> {}, committed |-> FALSE, deleted |-> FALSE,
     injected |-> FALSE,
     pre_trip_ids |-> {}, pre_assignment_ids |-> {}, mid |-> EmptyStore,
     del_log |-> <<>>,
     all_drivers |-> <<>>, all_vehicles |-> <<>>, plan |-> <<>>, created |-> {}]

Ids(rows) == {x.id : x \in rows}

\* cast(Trip.scheduled_start, Date) == target_date
TripsOn(s, D) == {t \in s.trips : DateOf(t.scheduled_start) = D}

\* RotationAssignment.shift_date == target_date
AssignmentsOn(s, D) == {a \in s.assignments : a.shift_date = D}

-----------------------------------------------------------------------------
(* break_service.start_break *)

\* start_break with the budget test off by one (< 0 for <= 0).
StartBreakCheck_BudgetOffByOne(drv) ==
    IF drv.trips_since_last_break < MIN_TRIPS_BEFORE_BREAK THEN "IneligibleBreak"
    ELSE IF drv.break_time_remaining < 0 THEN "IneligibleBreak"
    ELSE "ok"

\* The two validation raises of start_break, in order; "ok" when none fires.
\* The status test of lines 23-26 is a bare `pass`: it rejects nothing.
StartBreakCheck(drv) ==
    IF drv.trips_since_last_break < MIN_TRIPS_BEFORE_BREAK THEN "IneligibleBreak"
    ELSE IF drv.break_time_remaining <= 0 THEN "IneligibleBreak"
    ELSE "ok"

\* start_break that also resets the trip counter.
StartBreakDriver_ResetsTrips(drv, t) ==
    [drv EXCEPT !.status = "ON_BREAK",
                !.break_start_time = t,
                !.current_break_number = @ + 1,
                !.trips_since_last_break = 0]

\* The break consumes the trips that earned it.
StartBreakDriver_ConsumesTrips(drv, t) ==
    [drv EXCEPT !.status = "ON_BREAK",
                !.break_start_time = t,
                !.current_break_number = @ + 1,
                !.trips_since_last_break = @ - MIN_TRIPS_BEFORE_BREAK]

\* The driver object after lines 35-38.
StartBreakDriver(drv, t) ==
    [drv EXCEPT !.status = "ON_BREAK",
                !.break_start_time = t,
                !.current_break_number = @ + 1]

\* The BreakLog of lines 41-46, built from the already updated driver.
NewBreakLog(d, drv, t) ==
    [driver_id |-> d,
     break_number |-> drv.current_break_number,
     start_time |-> t,
     end_time |-> NoTime,
     duration_minutes |-> NoTime]

-----------------------------------------------------------------------------
(* break_service.end_break *)

\* end_break that rejects only when both tests fail.
EndBreakCheck_AndForOr(drv) ==
    IF drv.status # "ON_BREAK" /\ drv.break_start_time = NoTime THEN "NotOnBreak"
    ELSE "ok"

\* The raise of lines 63-64; "ok" when it does not fire.
EndBreakCheck(drv) ==
    IF drv.status # "ON_BREAK" \/ drv.break_start_time = NoTime THEN "NotOnBreak"
    ELSE "ok"

EndBreakDuration(drv, t) == t - drv.break_start_time

\* end_break without the floor at zero.
EndBreakDriver_NoFloor(drv, t) ==
    [drv EXCEPT !.status = "ACTIVE",
                !.break_time_remaining = @ - (t - drv.break_start_time),
                !.total_break_time_today = @ + (t - drv.break_start_time),
                !.break_start_time = NoTime,
                !.trips_since_last_break = 0]

\* The driver object after lines 70-74.
EndBreakDriver(drv, t) ==
    [drv EXCEPT !.status = "ACTIVE",
                !.break_time_remaining = Max(0, @ - EndBreakDuration(drv, t)),
                !.total_break_time_today = @ + EndBreakDuration(drv, t),
                !.break_start_time = NoTime,
                !.trips_since_last_break = 0]

\* Rows the select of lines 78-81 matches: this driver's logs with no end_time.
OpenLogIds(logs, d) ==
    {i \in DOMAIN logs : logs[i].driver_id = d /\ logs[i].end_time = NoTime}

\* .order_by(start_time.desc()).first(): any open row with the latest start
\* (rows with equal start_time come back in an order the store picks).
FirstOpenLogs(logs, d) ==
    {i \in OpenLogIds(logs, d) :
        \A j \in OpenLogIds(logs, d) : logs[j].start_time <= logs[i].start_time}

\* Lines 85-87 applied to row i.
CloseLog(logs, i, t, dur) ==
    [logs EXCEPT ![i].end_time = t, ![i].duration_minutes = dur]

-----------------------------------------------------------------------------
(* The record of the last call *)

NoCall ==
    [op |-> "none", driver |-> 0, result |-> "none", time |-> 0,
     pre_drivers |-> <<>>, pre_logs |-> <<>>,
     prev_op |-> "none", prev_driver |-> 0, prev_result |-> "none"]

Call(op, d, res) ==
    [op |-> op, driver |-> d, result |-> res, time |-> now,
     pre_drivers |-> drivers, pre_logs |-> break_logs,
     prev_op |-> lastCall.op, prev_driver |-> lastCall.driver,
     prev_result |-> lastCall.result]

\* A request slot with no request in it.
IdleSession ==
    [pc |-> "idle", op |-> "none", driver |-> 0, time |-> 0,
     loaded |-> DefaultDriver, obj |-> DefaultDriver, log |-> 0, overlap |-> {}]

NoSessions == [r \in RequestIds |-> IdleSession]

-----------------------------------------------------------------------------
(* Actions of the break lifecycle, one request handled at a time *)

\* request_start_break without interleaving: load, start_break, commit.
start_break(d) ==
    LET drv == drivers[d]
        res == StartBreakCheck(drv)
        upd == StartBreakDriver(drv, now)
    IN  /\ res = "ok" => Len(break_logs) < MaxBreaks
        /\ lastCall' = Call("start_break", d, res)
        /\ IF res = "ok"
           THEN /\ drivers' = [drivers EXCEPT ![d] = upd]
                /\ break_logs' = Append(break_logs, NewBreakLog(d, upd, now))
           ELSE UNCHANGED <<drivers, break_logs>>
        /\ UNCHANGED <<now, sessions>>
        /\ UNCHANGED genVars

\* request_end_break without interleaving: load, end_break, commit.
end_break(d) ==
    LET drv == drivers[d]
        res == EndBreakCheck(drv)
    IN  /\ lastCall' = Call("end_break", d, res)
        /\ IF res = "ok"
           THEN /\ drivers' = [drivers EXCEPT ![d] = EndBreakDriver(drv, now)]
                /\ IF FirstOpenLogs(break_logs, d) = {}
                   THEN UNCHANGED break_logs
                   ELSE \E i \in FirstOpenLogs(break_logs, d) :
                          break_logs' = CloseLog(break_logs, i, now,
                                                 EndBreakDuration(drv, now))
           ELSE UNCHANGED <<drivers, break_logs>>
        /\ UNCHANGED <<now, sessions>>
        /\ UNCHANGED genVars

\* A trip of driver d completes (exogenous): trips_since_last_break grows.
complete_trip(d) ==
    /\ drivers[d].trips_since_last_break < MaxTrips
    /\ drivers' = [drivers EXCEPT ![d].trips_since_last_break = @ + 1]
    /\ lastCall' = NoCall
    /\ UNCHANGED <<break_logs, now, sessions>>
    /\ UNCHANGED genVars

\* admin.update_driver with a DriverUpdate that sets status.
update_driver(d, st) ==
    /\ drivers[d].status # st
    /\ drivers' = [drivers EXCEPT ![d].status = st]
    /\ lastCall' = NoCall
    /\ UNCHANGED <<break_logs, now, sessions>>
    /\ UNCHANGED genVars

\* Time passes.
Tick(step) ==
    /\ now + step <= MaxNow
    /\ now' = now + step
    /\ lastCall' = NoCall
    /\ UNCHANGED <<drivers, break_logs, sessions>>
    /\ UNCHANGED genVars

-----------------------------------------------------------------------------
(* Specifications of the break lifecycle *)

\* The scheduling tables play no part in the break lifecycle.
NoSchedule ==
    /\ vehicles = <<>>
    /\ routes = <<>>
    /\ db = EmptyStore
    /\ seq = FirstKeys
    /\ fk_enforced = TRUE
    /\ lastGen = NoGen

InitBreak ==
    /\ drivers = [d \in DriverIds |-> DefaultDriver]
    /\ break_logs = <<>>
    /\ now = 0
    /\ lastCall = NoCall
    /\ sessions = NoSessions
    /\ NoSchedule

InitBreakAdmin ==
    /\ drivers = [d \in AdminDriverIds |-> DefaultDriver]
    /\ break_logs = <<>>
    /\ now = 0
    /\ lastCall = NoCall
    /\ sessions = NoSessions
    /\ NoSchedule

\* start_break, end_break and trip completions only.
NextBreakCore ==
    \/ \E d \in DOMAIN drivers : start_break(d)
    \/ \E d \in DOMAIN drivers : end_break(d)
    \/ \E d \in DOMAIN drivers : complete_trip(d)
    \/ \E step \in TickSteps : Tick(step)

SpecBreakCore == InitBreak /\ [][NextBreakCore]_vars

\* The same with the administrator changing a driver's status.
NextBreak ==
    \/ \E d \in DOMAIN drivers : start_break(d)
    \/ \E d \in DOMAIN drivers : end_break(d)
    \/ \E d \in DOMAIN drivers : complete_trip(d)
    \/ \E d \in DOMAIN drivers, st \in DriverStatus : update_driver(d, st)
    \/ \E step \in TickSteps : Tick(step)

SpecBreak == InitBreakAdmin /\ [][NextBreak]_vars

Spec == SpecBreak

-----------------------------------------------------------------------------
(* rotation_service.generate_daily_schedule: the deletion phase *)

\* Rows of the store that still point at a trip in trip_ids.
TripReferrers(s, trip_ids) ==
    {x \in s.tickets \cup s.gps \cup s.exchanges : x.trip_id \in trip_ids}

\* Rows of the store that still point at an assignment in assignment_ids.
AssignmentReferrers(s, assignment_ids) ==
    {x \in s.trips \cup s.exchanges : x.rotation_assignment_id \in assignment_ids}

\* The main records first.
DeleteOrder_MainFirst == <<"trips", "assignments", "tickets", "gps", "exchanges">>

\* Lines 32-44: the DELETE statements in the order they are written.
DeleteOrder == <<"tickets", "gps", "exchanges", "trips", "assignments">>

\* Lines 31, 35, 39, 42: a statement runs only with a non-empty id list.
Issued(stmt, assignment_ids, trip_ids) ==
    IF stmt \in {"exchanges", "assignments"} THEN assignment_ids # {} ELSE trip_ids # {}

\* One DELETE ... WHERE ... IN (ids) on the view s.
DeleteStmt(s, stmt, assignment_ids, trip_ids) ==
    CASE stmt = "tickets" -> [s EXCEPT !.tickets = {x \in @ : x.trip_id \notin trip_ids}]
      [] stmt = "gps" -> [s EXCEPT !.gps = {x \in @ : x.trip_id \notin trip_ids}]
      [] stmt = "exchanges" ->
            [s EXCEPT !.exchanges =
                {x \in @ : x.rotation_assignment_id \notin assignment_ids}]
      [] stmt = "trips" -> [s EXCEPT !.trips = {x \in @ : x.id \notin trip_ids}]
      [] stmt = "assignments" ->
            [s EXCEPT !.assignments = {x \in @ : x.id \notin assignment_ids}]

\* The statement hits a foreign key the store enforces.
Blocked(s, stmt, assignment_ids, trip_ids, fk) ==
    /\ fk
    /\ CASE stmt = "trips" -> TripReferrers(s, trip_ids) # {}
         [] stmt = "assignments" -> AssignmentReferrers(s, assignment_ids) # {}
         [] OTHER -> FALSE

\* Lines 31-44 from statement k on; log keeps each statement that was sent
\* with the view it was sent on.
RECURSIVE DeleteFrom(_, _, _, _, _, _)
DeleteFrom(k, s, assignment_ids, trip_ids, fk, log) ==
    IF k > Len(DeleteOrder)
    THEN [ok |-> TRUE, store |-> s, log |-> log]
    ELSE LET stmt == DeleteOrder[k]
             sent == Append(log, [stmt |-> stmt, before |-> s])
         IN  IF ~Issued(stmt, assignment_ids, trip_ids)
             THEN DeleteFrom(k + 1, s, assignment_ids, trip_ids, fk, log)
             ELSE IF Blocked(s, stmt, assignment_ids, trip_ids, fk)
             THEN [ok |-> FALSE, store |-> s, log |-> sent]
             ELSE DeleteFrom(k + 1, DeleteStmt(s, stmt, assignment_ids, trip_ids),
                             assignment_ids, trip_ids, fk, sent)

\* Lines 22-46 on the session's view s of the store: both id lists are read
\* (lines 23-29), then the statements run.  ok is FALSE when a DELETE hits a
\* foreign key the store enforces; store is the view after the last statement
\* that ran.
DeletePhase(s, D, fk) ==
    DeleteFrom(1, s, Ids(AssignmentsOn(s, D)), Ids(TripsOn(s, D)), fk, <<>>)

-----------------------------------------------------------------------------
(* rotation_service.generate_daily_schedule: pools and the rebuild *)

\* The ids of a table's rows, in id order.
RowIds(table) == [i \in 1..Len(table) |-> i]

IsActiveRoute(r) == r.is_active
NotOffDuty(d) == d.status # "OFF_DUTY"
NotOutOfService(v) == v.status # "OUT_OF_SERVICE"

\* Lines 54-62: the three selects.
ActiveRoutes == SelectSeq(RowIds(routes), LAMBDA i : IsActiveRoute(routes[i]))
AllDrivers == SelectSeq(RowIds(drivers), LAMBDA i : NotOffDuty(drivers[i]))
AllVehicles == SelectSeq(RowIds(vehicles), LAMBDA i : NotOutOfService(vehicles[i]))

Min(a, b) == IF a <= b THEN a ELSE b

\* The Python slice pool[idx:idx+n]: cut off at the end of the list.
Slice(pool, idx, n) == SubSeq(pool, idx + 1, Min(idx + n, Len(pool)))

\* The second assignment at the replacement position.
RouteAssignments_ReplacementSlot(route_id, route_drivers, route_vehicles, D, a0) ==
    [i \in 1..Min(Min(Len(route_drivers), 2), Len(route_vehicles)) |->
        [id |-> a0 + i - 1,
         route_id |-> route_id,
         driver_id |-> route_drivers[i],
         vehicle_id |-> route_vehicles[i],
         shift_date |-> D,
         shift_type |-> "MORNING",
         position |-> IF i = 1 THEN "DRIVER_1" ELSE "DRIVER_3",
         shift_start_time |-> At(D, 6, 0),
         shift_end_time |-> At(D, 15, 0)]]

\* Lines 88-100: the two assignments of a route, keys a0 and a0 + 1.
RouteAssignments(route_id, route_drivers, route_vehicles, D, a0) ==
    [i \in 1..Min(Min(Len(route_drivers), 2), Len(route_vehicles)) |->
        [id |-> a0 + i - 1,
         route_id |-> route_id,
         driver_id |-> route_drivers[i],
         vehicle_id |-> route_vehicles[i],
         shift_date |-> D,
         shift_type |-> "MORNING",
         position |-> IF i = 1 THEN "DRIVER_1" ELSE "DRIVER_2",
         shift_start_time |-> At(D, 6, 0),
         shift_end_time |-> At(D, 15, 0)]]

\* A store without the unique constraint.
SameSlot_Unconstrained(a, b) == FALSE

\* A store whose only unique key is the primary key.
SameSlot_SameRow(a, b) == a.id = b.id

\* uix_rotation_assignment (models.py 202-204).
SameSlot(a, b) ==
    /\ a.route_id = b.route_id /\ a.shift_type = b.shift_type
    /\ a.position = b.position /\ a.shift_date = b.shift_date

NewTrip(id, route_id, a, start, est, dir) ==
    [id |-> id,
     route_id |-> route_id,
     driver_id |-> a.driver_id,
     vehicle_id |-> a.vehicle_id,
     scheduled_start |-> start,
     scheduled_end |-> start + est,
     direction |-> dir,
     rotation_assignment_id |-> a.id]

\* The return leg leaves when the outbound leg ends, without turnaround.
ReturnStart_NoTurnaround(current_dt, r) == current_dt + r.estimated_time_minutes

\* Line 128: return_start.
ReturnStart(current_dt, r) ==
    current_dt + r.estimated_time_minutes + r.turnaround_time_minutes

\* The return leg is kept when it starts at the window end too.
InboundFits_AtBound(return_start, end_time) == return_start <= end_time

\* Line 129: the return leg is emitted when it starts before the window end.
InboundFits(return_start, end_time) == return_start < end_time

\* The same assignment every cycle.
NextToggle_Stuck(driver_toggle) == driver_toggle

\* Line 111: driver_toggle = 1 - driver_toggle.
NextToggle(driver_toggle) == 1 - driver_toggle

RECURSIVE TripLoop(_, _, _, _, _, _, _)
\* Lines 109-145: the while loop from current_dt on; the trips in creation order.
TripLoop(route_id, assignments, current_dt, end_time, driver_toggle, t0, acc) ==
    IF ~(current_dt < end_time) THEN acc
    ELSE
        LET r == routes[route_id]
            active_assignment == assignments[driver_toggle + 1]
            trip_out == NewTrip(t0 + Len(acc), route_id, active_assignment, current_dt,
                                r.estimated_time_minutes, "OUTBOUND")
            return_start == ReturnStart(current_dt, r)
            trip_in == NewTrip(t0 + Len(acc) + 1, route_id, active_assignment,
                               return_start, r.estimated_time_minutes, "INBOUND")
            step == IF InboundFits(return_start, end_time) THEN <<trip_out, trip_in>>
                    ELSE <<trip_out>>
        IN  TripLoop(route_id, assignments, current_dt + 60, end_time,
                     NextToggle(driver_toggle), t0, acc \o step)

Range(f) == {f[i] : i \in DOMAIN f}

\* A short slice ends the loop.
AfterSkip_Break(k) == Len(ActiveRoutes) + 1

\* Line 78: continue with the next route.
AfterSkip(k) == k + 1

RECURSIVE RouteLoop(_, _, _)
\* Lines 73-145: the for loop over routes from position k on.  st carries the
\* session's view, the rotating indices, the keys, the trips made so far and
\* plan, the slices of lines 74-75 of the routes visited so far.
RouteLoop(k, D, st) ==
    IF k > Len(ActiveRoutes) \/ ~st.ok THEN st
    ELSE
        LET route_id == ActiveRoutes[k]
            route_drivers == Slice(AllDrivers, st.driver_idx, 3)
            route_vehicles == Slice(AllVehicles, st.vehicle_idx, 2)
            claimed == Append(st.plan, [route_id |-> route_id,
                                        route_drivers |-> route_drivers,
                                        route_vehicles |-> route_vehicles])
        IN  IF Len(route_drivers) < 2 \/ Len(route_vehicles) < 2
            THEN RouteLoop(AfterSkip(k), D, [st EXCEPT !.plan = claimed])
            ELSE
                LET assignments == RouteAssignments(route_id, route_drivers,
                                                    route_vehicles, D, st.next_assignment)
                    clash == \E a \in Range(assignments), b \in st.store.assignments :
                                SameSlot(a, b)
                    trips == TripLoop(route_id, assignments, At(D, 6, 0), At(D, 14, 0),
                                      0, st.next_trip, <<>>)
                IN  IF clash
                    THEN [st EXCEPT !.ok = FALSE, !.plan = claimed]
                    ELSE RouteLoop(k + 1, D,
                            [ok |-> TRUE,
                             plan |-> claimed,
                             store |-> [st.store EXCEPT
                                           !.assignments = @ \cup Range(assignments),
                                           !.trips = @ \cup Range(trips)],
                             driver_idx |-> (st.driver_idx + 3) % Len(AllDrivers),
                             vehicle_idx |-> (st.vehicle_idx + 2) % Len(AllVehicles),
                             next_assignment |-> st.next_assignment + Len(assignments),
                             next_trip |-> st.next_trip + Len(trips),
                             generated |-> st.generated \o trips])

\* The loop state of line 67-71: nothing generated, both indices 0.
NoRebuild(s) ==
    [ok |-> TRUE, store |-> s, driver_idx |-> 0, vehicle_idx |-> 0,
     next_assignment |-> seq.assignments, next_trip |-> seq.trips,
     generated |-> <<>>, plan |-> <<>>]

\* Lines 67-145 on the view s.
Rebuild(s, D) == RouteLoop(1, D, NoRebuild(s))

-----------------------------------------------------------------------------
(* generate_daily_schedule as one call with its session *)

\* Where the store fails during the call, if it does.
FailPoints == {"none", "delete", "rebuild"}

\* The early return never taken.
AlreadyGenerated_Never(s, D, regenerate) == FALSE

\* Line 17.
AlreadyGenerated(s, D, regenerate) ==
    Cardinality(TripsOn(s, D)) > 0 /\ ~regenerate

\* generate_daily_schedule with a commit for the flush of line 46: the
\* deletion phase is durable before the rebuild starts.
Generate_CommitsDeletion(D, regenerate, fail, del, reb) ==
    LET out(res, ret, st, com, deleted, injected) ==
            [result |-> res, returned |-> ret, store |-> st, committed |-> com,
             deleted |-> deleted, injected |-> injected]
    IN  IF AlreadyGenerated(db, D, regenerate)
        THEN out("ok", <<>>, db, FALSE, FALSE, FALSE)
        ELSE IF regenerate /\ (fail = "delete" \/ ~del.ok)
        THEN out("error", <<>>, db, FALSE, FALSE, del.ok)
        ELSE IF Len(AllDrivers) = 0 \/ Len(AllVehicles) = 0
        THEN out("ok", <<>>, del.store, FALSE, regenerate, FALSE)
        ELSE IF fail = "rebuild" \/ ~reb.ok
        THEN out("error", <<>>, del.store, FALSE, regenerate, reb.ok)
        ELSE out("ok", reb.generated, reb.store, TRUE, regenerate, FALSE)

\* generate_daily_schedule without the return of lines 64-65: with an empty
\* pool every route is skipped and line 147 commits.
Generate_NoPoolCheck(D, regenerate, fail, del, reb) ==
    LET out(res, ret, st, com, deleted, injected) ==
            [result |-> res, returned |-> ret, store |-> st, committed |-> com,
             deleted |-> deleted, injected |-> injected]
    IN  IF AlreadyGenerated(db, D, regenerate)
        THEN out("ok", <<>>, db, FALSE, FALSE, FALSE)
        ELSE IF regenerate /\ (fail = "delete" \/ ~del.ok)
        THEN out("error", <<>>, db, FALSE, FALSE, del.ok)
        ELSE IF fail = "rebuild" \/ ~reb.ok
        THEN out("error", <<>>, db, FALSE, regenerate, reb.ok)
        ELSE out("ok", reb.generated, reb.store, TRUE, regenerate, FALSE)

\* What the call did: the result, the returned trips, the committed store;
\* injected tells that the call failed at its fail point and not on a
\* constraint of the store.
\* del is the outcome of the deletion phase (lines 20-51) and reb that of the
\* rebuild on the view the deletion phase left.  Line 46 flushes and line 147
\* is the only commit.  An exception leaves through the caller, whose session
\* is closed without a commit (get_db, scheduled_daily_generation), and so
\* does the return of line 65: the store keeps what was committed before.
Generate(D, regenerate, fail, del, reb) ==
    LET out(res, ret, st, com, deleted, injected) ==
            [result |-> res, returned |-> ret, store |-> st, committed |-> com,
             deleted |-> deleted, injected |-> injected]
    IN  IF AlreadyGenerated(db, D, regenerate)
        THEN out("ok", <<>>, db, FALSE, FALSE, FALSE)
        ELSE IF regenerate /\ (fail = "delete" \/ ~del.ok)
        THEN out("error", <<>>, db, FALSE, FALSE, del.ok)
        ELSE IF Len(AllDrivers) = 0 \/ Len(AllVehicles) = 0
        THEN out("ok", <<>>, db, FALSE, regenerate, FALSE)
        ELSE IF fail = "rebuild" \/ ~reb.ok
        THEN out("error", <<>>, db, FALSE, regenerate, reb.ok)
        ELSE out("ok", reb.generated, reb.store, TRUE, regenerate, FALSE)

\* The rows of the view s that belong to date D, and every dependent row.
OnDate(s, D) ==
    [s EXCEPT !.trips = TripsOn(s, D), !.assignments = AssignmentsOn(s, D)]

\* What a statement of the deletion phase for date D finds in the view s: the
\* dependent rows, and the ids of D's trips and assignments.
Seen(s, D) ==
    [tickets |-> s.tickets, gps |-> s.gps, exchanges |-> s.exchanges,
     trip_ids |-> Ids(TripsOn(s, D)),
     assignment_ids |-> Ids(AssignmentsOn(s, D))]

\* generate_daily_schedule for date D in a session of its caller, which never
\* commits: force_generate_schedule turns an exception into a response 500,
\* scheduled_daily_generation catches and prints it (raised).  lastGen
\* keeps the ids of D's rows before the call and, of the session's view at the
\* end of the deletion phase, the rows of D and the dependent rows; the DELETE
\* statements it sent, each with the view it was sent on (del_log); the two
\* pools of the call; and of a committed call the slices of its routes (plan)
\* and the ids of the assignments it created.
generate_as(caller, D, regenerate) ==
    \E del \in {IF regenerate THEN DeletePhase(db, D, fk_enforced)
                 ELSE [ok |-> TRUE, store |-> db, log |-> <<>>]} :
    \E reb \in {IF AlreadyGenerated(db, D, regenerate) THEN NoRebuild(db)
                 ELSE Rebuild(del.store, D)} :
    \E fail \in FailPoints :
    \E g \in {Generate(D, regenerate, fail, del, reb)} :
        /\ fail = "delete" => regenerate
        /\ g.committed => seq.commits < MaxGens
        /\ db' = g.store
        /\ seq' = IF g.committed
                  THEN [seq EXCEPT !.assignments = reb.next_assignment,
                                   !.trips = reb.next_trip,
                                   !.commits = @ + 1]
                  ELSE seq
        /\ lastGen' = [op |-> "generate", caller |-> caller,
                       raised |-> (g.result = "error" /\ caller # "timer"),
                       date |-> D, regenerate |-> regenerate,
                       result |-> g.result,
                       returned |-> Ids(Range(g.returned)), committed |-> g.committed,
                       deleted |-> g.deleted, injected |-> g.injected,
                       pre_trip_ids |-> Ids(TripsOn(db, D)),
                       pre_assignment_ids |-> Ids(AssignmentsOn(db, D)),
                       mid |-> IF g.deleted THEN OnDate(del.store, D) ELSE EmptyStore,
                       del_log |-> IF regenerate /\ fail # "delete"
                                   THEN [i \in DOMAIN del.log |->
                                            [stmt |-> del.log[i].stmt,
                                             before |-> Seen(del.log[i].before, D)]]
                                   ELSE <<>>,
                       all_drivers |-> AllDrivers, all_vehicles |-> AllVehicles,
                       plan |-> IF g.committed THEN reb.plan ELSE <<>>,
                       created |-> IF g.committed
                                   THEN Ids(reb.store.assignments \ del.store.assignments)
                                   ELSE {}]
        /\ UNCHANGED <<drivers, vehicles, routes, fk_enforced>>
        /\ UNCHANGED breakVars

\* admin.force_generate_schedule (today is D).
generate(D, regenerate) == generate_as("operator", D, regenerate)

\* A timer job that forces the rebuild.
scheduled_daily_generation_Regenerates(D) == generate_as("timer", D, TRUE)

\* scheduler.scheduled_daily_generation (today is D): regenerate keeps its
\* default.
scheduled_daily_generation(D) == generate_as("timer", D, FALSE)

\* A trip and an assignment per date stand for all of the date's rows.
SampleTrips(s) ==
    {t \in s.trips : \A u \in TripsOn(s, DateOf(t.scheduled_start)) : t.id <= u.id}
SampleAssignments(s) ==
    {a \in s.assignments : \A b \in AssignmentsOn(s, a.shift_date) : a.id <= b.id}

ChildRows(s) == Cardinality(s.tickets) + Cardinality(s.gps) + Cardinality(s.exchanges)

\* admin.create_ticket for an existing trip.
create_ticket(trip_id) ==
    /\ ChildRows(db) < MaxChildRows
    /\ db' = [db EXCEPT !.tickets = @ \cup {[id |-> seq.children, trip_id |-> trip_id]}]
    /\ seq' = [seq EXCEPT !.children = @ + 1]
    /\ lastGen' = NoGen
    /\ UNCHANGED <<drivers, vehicles, routes, fk_enforced>>
    /\ UNCHANGED breakVars

\* A gps_tracking row of a trip (GPSTracking.trip_id).
add_gps(trip_id) ==
    /\ ChildRows(db) < MaxChildRows
    /\ db' = [db EXCEPT !.gps = @ \cup {[id |-> seq.children, trip_id |-> trip_id]}]
    /\ seq' = [seq EXCEPT !.children = @ + 1]
    /\ lastGen' = NoGen
    /\ UNCHANGED <<drivers, vehicles, routes, fk_enforced>>
    /\ UNCHANGED breakVars

\* A driver_exchanges row: rotation_assignment_id is required, trip_id is
\* optional (0 for NULL) and need not be a trip of that assignment.
add_exchange(assignment_id, trip_id) ==
    /\ ChildRows(db) < MaxChildRows
    /\ db' = [db EXCEPT !.exchanges = @ \cup
                 {[id |-> seq.children, rotation_assignment_id |-> assignment_id,
                   trip_id |-> trip_id]}]
    /\ seq' = [seq EXCEPT !.children = @ + 1]
    /\ lastGen' = NoGen
    /\ UNCHANGED <<drivers, vehicles, routes, fk_enforced>>
    /\ UNCHANGED breakVars

RouteKinds ==
    {[is_active |-> TRUE, estimated_time_minutes |-> 40, turnaround_time_minutes |-> 10],
     [is_active |-> FALSE, estimated_time_minutes |-> 50, turnaround_time_minutes |-> 10]}

InitGen ==
    /\ \E n \in DriverCounts : drivers = [d \in 1..n |-> DefaultDriver]
    /\ \E n \in VehicleCounts : vehicles = [v \in 1..n |-> [status |-> "FREE"]]
    /\ \E n \in RouteCounts : routes \in [1..n -> RouteKinds]
    /\ fk_enforced \in BOOLEAN
    /\ db = EmptyStore
    /\ seq = FirstKeys
    /\ lastGen = NoGen
    /\ break_logs = <<>>
    /\ now = 0
    /\ lastCall = NoCall
    /\ sessions = NoSessions

NextGen ==
    \/ \E D \in Dates, regenerate \in BOOLEAN : generate(D, regenerate)
    \/ \E t \in SampleTrips(db) : create_ticket(t.id)
    \/ \E t \in SampleTrips(db) : add_gps(t.id)
    \/ \E a \in SampleAssignments(db), t \in Ids(SampleTrips(db)) \cup {0} :
          add_exchange(a.id, t)

SpecGen == InitGen /\ [][NextGen]_vars

\* The daily timer next to the operator's calls.
NextTimer ==
    \/ \E D \in Dates : scheduled_daily_generation(D)
    \/ \E D \in Dates, regenerate \in BOOLEAN : generate(D, regenerate)
    \/ \E t \in SampleTrips(db) : create_ticket(t.id)
    \/ \E t \in SampleTrips(db) : add_gps(t.id)
    \/ \E a \in SampleAssignments(db), t \in Ids(SampleTrips(db)) \cup {0} :
          add_exchange(a.id, t)

SpecTimer == InitGen /\ [][NextTimer]_vars

-----------------------------------------------------------------------------
(* Two generate_daily_schedule calls in separate transactions.  Each statement
   reads the rows committed when it runs; a DELETE waits for a row another
   open transaction has deleted, an INSERT waits for a key of the unique index
   another open transaction has written. *)

RaceDates == {1}

\* The callers of a racing call: the timer (CREATE) and the operator.
GenCallers == {<<"timer", FALSE>>, <<"operator", FALSE>>, <<"operator", TRUE>>}

\* A request slot no call has used.
IdleGenSession ==
    [pc |-> "idle", caller |-> "none", date |-> 0, regenerate |-> FALSE,
     assignment_ids |-> {}, trip_ids |-> {}, k |-> 1,
     gone |-> EmptyStore, new |-> EmptyStore,
     committed |-> FALSE, result |-> "none"]

NoGenSessions == [r \in RequestIds |-> IdleGenSession]

Open(r) == sessions[r].pc \notin {"idle", "done"}

\* What the transaction of r sees: the committed rows without the rows it
\* deleted, and the rows it inserted.
View(r) ==
    [tbl \in DOMAIN db |-> (db[tbl] \ sessions[r].gone[tbl]) \cup sessions[r].new[tbl]]

\* The call of r is over: committed, or rolled back by its caller.
Finished(r, result, committed) ==
    [sessions EXCEPT ![r].pc = "done",
                     ![r].result = result,
                     ![r].committed = committed,
                     ![r].gone = EmptyStore,
                     ![r].new = IF committed THEN @ ELSE EmptyStore]

GenStepUnchanged ==
    UNCHANGED <<drivers, vehicles, routes, fk_enforced, lastGen, break_logs, now, lastCall>>

\* Lines 14-18: the count and the early return.
CountExisting(r, caller, D, regenerate) ==
    /\ sessions[r].pc = "idle"
    /\ sessions' =
          IF AlreadyGenerated(db, D, regenerate)
          THEN [sessions EXCEPT ![r].pc = "done", ![r].caller = caller, ![r].date = D,
                                ![r].regenerate = regenerate, ![r].result = "ok"]
          ELSE [sessions EXCEPT ![r].pc = IF regenerate THEN "gather_assignments"
                                          ELSE "insert",
                                ![r].caller = caller, ![r].date = D,
                                ![r].regenerate = regenerate]
    /\ UNCHANGED <<db, seq>>
    /\ GenStepUnchanged

\* Lines 23-25.
GatherAssignmentIds(r) ==
    /\ sessions[r].pc = "gather_assignments"
    /\ sessions' = [sessions EXCEPT
                       ![r].pc = "gather_trips",
                       ![r].assignment_ids = Ids(AssignmentsOn(db, sessions[r].date))]
    /\ UNCHANGED <<db, seq>>
    /\ GenStepUnchanged

\* Lines 27-29.
GatherTripIds(r) ==
    /\ sessions[r].pc = "gather_trips"
    /\ sessions' = [sessions EXCEPT
                       ![r].pc = "delete",
                       ![r].trip_ids = Ids(TripsOn(db, sessions[r].date))]
    /\ UNCHANGED <<db, seq>>
    /\ GenStepUnchanged

\* Lines 31-46: the next DELETE statement of r.
DeleteNext(r) ==
    LET me == sessions[r]
        stmt == DeleteOrder[me.k]
        view == View(r)
        targets == view[stmt] \ DeleteStmt(view, stmt, me.assignment_ids, me.trip_ids)[stmt]
    IN  /\ me.pc = "delete"
        /\ IF me.k > Len(DeleteOrder)
           THEN sessions' = [sessions EXCEPT ![r].pc = "insert"]
           ELSE IF ~Issued(stmt, me.assignment_ids, me.trip_ids)
           THEN sessions' = [sessions EXCEPT ![r].k = @ + 1]
           ELSE /\ \A q \in RequestIds \ {r} :
                      Open(q) => targets \cap sessions[q].gone[stmt] = {}
                /\ sessions' =
                      IF Blocked(view, stmt, me.assignment_ids, me.trip_ids, fk_enforced)
                      THEN Finished(r, "error", FALSE)
                      ELSE [sessions EXCEPT ![r].k = @ + 1,
                                            ![r].gone[stmt] = @ \cup (targets \cap db[stmt]),
                                            ![r].new[stmt] = @ \ targets]
        /\ UNCHANGED <<db, seq>>
        /\ GenStepUnchanged

\* Lines 54-145: the pools, and the assignments and trips of every route with
\* their flushes.  The keys come from the sequences, which do not roll back.
InsertRows(r) ==
    LET me == sessions[r]
        view == View(r)
        want == Rebuild([view EXCEPT !.assignments = {}], me.date).store.assignments
        reb == Rebuild(view, me.date)
    IN  /\ me.pc = "insert"
        /\ IF Len(AllDrivers) = 0 \/ Len(AllVehicles) = 0
           THEN /\ sessions' = Finished(r, "ok", FALSE)
                /\ seq' = seq
           ELSE /\ \A q \in RequestIds \ {r} :
                      Open(q) =>
                          \A a \in want,
                             b \in sessions[q].new.assignments \cup sessions[q].gone.assignments :
                              ~SameSlot(a, b)
                /\ IF ~reb.ok
                   THEN /\ sessions' = Finished(r, "error", FALSE)
                        /\ seq' = seq
                   ELSE /\ sessions' =
                              [sessions EXCEPT
                                  ![r].pc = "commit",
                                  ![r].new = [tbl \in DOMAIN db |->
                                                 me.new[tbl] \cup (reb.store[tbl] \ view[tbl])]]
                        /\ seq' = [seq EXCEPT !.assignments = reb.next_assignment,
                                              !.trips = reb.next_trip]
        /\ db' = db
        /\ GenStepUnchanged

\* Line 147.
CommitSession(r) ==
    /\ sessions[r].pc = "commit"
    /\ db' = View(r)
    /\ seq' = [seq EXCEPT !.commits = @ + 1]
    /\ sessions' = Finished(r, "ok", TRUE)
    /\ GenStepUnchanged

\* A statement of r raises for a reason of the store's own; the caller does
\* not commit.
AbortSession(r) ==
    /\ sessions[r].pc \in {"delete", "insert", "commit"}
    /\ sessions' = Finished(r, "fault", FALSE)
    /\ UNCHANGED <<db, seq>>
    /\ GenStepUnchanged

\* Calls that ran before the two racing ones.
EarlierGenerate(D, regenerate) ==
    /\ \A r \in RequestIds : sessions[r].pc = "idle"
    /\ \E del \in {IF regenerate THEN DeletePhase(db, D, fk_enforced)
                     ELSE [ok |-> TRUE, store |-> db, log |-> <<>>]} :
       \E reb \in {IF AlreadyGenerated(db, D, regenerate) THEN NoRebuild(db)
                     ELSE Rebuild(del.store, D)} :
       \E g \in {Generate(D, regenerate, "none", del, reb)} :
          /\ g.committed
          /\ seq.commits < MaxGens
          /\ db' = g.store
          /\ seq' = [seq EXCEPT !.assignments = reb.next_assignment,
                                !.trips = reb.next_trip,
                                !.commits = @ + 1]
    /\ UNCHANGED sessions
    /\ GenStepUnchanged

InitGenRace ==
    /\ \E n \in DriverCounts : drivers = [d \in 1..n |-> DefaultDriver]
    /\ \E n \in VehicleCounts : vehicles = [v \in 1..n |-> [status |-> "FREE"]]
    /\ \E n \in RouteCounts : routes \in [1..n -> RouteKinds]
    /\ fk_enforced \in BOOLEAN
    /\ db = EmptyStore
    /\ seq = FirstKeys
    /\ lastGen = NoGen
    /\ break_logs = <<>>
    /\ now = 0
    /\ lastCall = NoCall
    /\ sessions = NoGenSessions

NextGenRace ==
    \/ \E D \in RaceDates, regenerate \in BOOLEAN : EarlierGenerate(D, regenerate)
    \/ \E r \in RequestIds, c \in GenCallers, D \in RaceDates :
          CountExisting(r, c[1], D, c[2])
    \/ \E r \in RequestIds : GatherAssignmentIds(r)
    \/ \E r \in RequestIds : GatherTripIds(r)
    \/ \E r \in RequestIds : DeleteNext(r)
    \/ \E r \in RequestIds : InsertRows(r)
    \/ \E r \in RequestIds : CommitSession(r)
    \/ \E r \in RequestIds : AbortSession(r)

SpecGenRace == InitGenRace /\ [][NextGenRace]_vars

-----------------------------------------------------------------------------
(* Generation over several pools and routes, with manual assignments *)

ShiftType == {"MORNING", "EVENING"}
RotationPosition == {"DRIVER_1", "DRIVER_2", "DRIVER_3"}

\* admin.create_assignment: one INSERT and a commit.  The store rejects a
\* second row of a slot (uix_rotation_assignment) and the request fails with
\* nothing written.  The row references driver 1 and vehicle 1.
create_assignment(route_id, shift_type, position, D) ==
    LET assignment == [id |-> seq.assignments,
                       route_id |-> route_id,
                       driver_id |-> 1,
                       vehicle_id |-> 1,
                       shift_date |-> D,
                       shift_type |-> shift_type,
                       position |-> position,
                       shift_start_time |-> At(D, 6, 0),
                       shift_end_time |-> At(D, 15, 0)]
    IN  /\ seq.manual < MaxManual
        /\ Len(drivers) >= 1 /\ Len(vehicles) >= 1
        /\ IF \E b \in db.assignments : SameSlot(assignment, b)
           THEN UNCHANGED <<db, seq>>
           ELSE /\ db' = [db EXCEPT !.assignments = @ \cup {assignment}]
                /\ seq' = [seq EXCEPT !.assignments = @ + 1, !.manual = @ + 1]
        /\ lastGen' = NoGen
        /\ UNCHANGED <<drivers, vehicles, routes, fk_enforced>>
        /\ UNCHANGED breakVars

ScheduleDates == {1}
ScheduleDriverCounts == {0, 2, 5}
ScheduleVehicleCounts == {0, 4}
ScheduleRouteCounts == {2}
ScheduleStatusDrivers == {1, 2}     \* drivers the administrator takes off duty
ScheduleManualRoutes == {1}         \* routes of the manual assignments
ScheduleManualSlots == {<<"MORNING", "DRIVER_1">>, <<"EVENING", "DRIVER_3">>}

\* Routes as create_route accepts them: any duration, any turnaround.
ScheduleRouteKinds ==
    {[is_active |-> TRUE, estimated_time_minutes |-> 40, turnaround_time_minutes |-> 10],
     [is_active |-> TRUE, estimated_time_minutes |-> 50, turnaround_time_minutes |-> 10],
     [is_active |-> TRUE, estimated_time_minutes |-> 70, turnaround_time_minutes |-> 10],
     [is_active |-> TRUE, estimated_time_minutes |-> 0, turnaround_time_minutes |-> 10],
     [is_active |-> FALSE, estimated_time_minutes |-> 40, turnaround_time_minutes |-> 10]}

InitSchedule ==
    /\ \E n \in ScheduleDriverCounts : drivers = [d \in 1..n |-> DefaultDriver]
    /\ \E n \in ScheduleVehicleCounts : vehicles = [v \in 1..n |-> [status |-> "FREE"]]
    /\ \E n \in ScheduleRouteCounts : routes \in [1..n -> ScheduleRouteKinds]
    /\ fk_enforced \in BOOLEAN
    /\ db = EmptyStore
    /\ seq = FirstKeys
    /\ lastGen = NoGen
    /\ break_logs = <<>>
    /\ now = 0
    /\ lastCall = NoCall
    /\ sessions = NoSessions

NextSchedule ==
    \/ \E D \in ScheduleDates, regenerate \in BOOLEAN : generate(D, regenerate)
    \/ \E route_id \in ScheduleManualRoutes, slot \in ScheduleManualSlots,
          D \in ScheduleDates : create_assignment(route_id, slot[1], slot[2], D)
    \/ \E d \in ScheduleStatusDrivers \cap DOMAIN drivers : update_driver(d, "OFF_DUTY")

SpecSchedule == InitSchedule /\ [][NextSchedule]_vars

-----------------------------------------------------------------------------
(* The break lifecycle next to schedule generation *)

\* The dates the schedule is generated for while drivers take their breaks,
\* and the drivers that take them.
BreakGenDates == {1}
BreakGenDrivers == {1}
BreakGenTickSteps == {45}

\* Two drivers, four vehicles and one active route; one driver takes breaks.
InitBreakGen ==
    /\ drivers = [d \in DriverIds |-> DefaultDriver]
    /\ break_logs = <<>>
    /\ now = 0
    /\ lastCall = NoCall
    /\ sessions = NoSessions
    /\ vehicles = [v \in 1..4 |-> [status |-> "FREE"]]
    /\ routes = <<[is_active |-> TRUE, estimated_time_minutes |-> 40,
                   turnaround_time_minutes |-> 10]>>
    /\ fk_enforced \in BOOLEAN
    /\ db = EmptyStore
    /\ seq = FirstKeys
    /\ lastGen = NoGen

NextBreakGen ==
    \/ \E d \in BreakGenDrivers : start_break(d)
    \/ \E d \in BreakGenDrivers : end_break(d)
    \/ \E d \in BreakGenDrivers : complete_trip(d)
    \/ \E step \in BreakGenTickSteps : Tick(step)
    \/ \E D \in BreakGenDates, regenerate \in BOOLEAN : generate(D, regenerate)

SpecBreakGen == InitBreakGen /\ [][NextBreakGen]_vars

-----------------------------------------------------------------------------
(* Claims about schedule generation *)

\* A step of generate_daily_schedule (every other step clears lastGen).
GenerateStep == lastGen'.op = "generate"

\* C1: for a date with at least one stored trip, generate_daily_schedule with
\* regenerate = false returns an empty list and leaves the stored trips,
\* rotation assignments, tickets, position logs and exchange records unchanged.
C1_CreateIsNoOp ==
    [][(GenerateStep /\ ~lastGen'.regenerate /\ TripsOn(db, lastGen'.date) # {}) =>
          /\ lastGen'.result = "ok"
          /\ lastGen'.returned = {}
          /\ db' = db]_vars

\* A create call on a date that has trips, with a dependent row in the store.
C1_Witness ==
    /\ lastGen.op = "generate"
    /\ ~lastGen.regenerate
    /\ lastGen.pre_trip_ids # {}
    /\ Ids(TripsOn(db, lastGen.date)) = lastGen.pre_trip_ids
    /\ lastGen.result = "ok"
    /\ lastGen.returned = {}
    /\ ChildRows(db) > 0

C3_DeletionPhaseComplete ==
    (lastGen.op = "generate" /\ lastGen.regenerate /\ lastGen.deleted
        /\ lastGen.pre_trip_ids # {}) =>
        /\ lastGen.mid.trips = {}
        /\ lastGen.mid.assignments = {}
        /\ \A x \in lastGen.mid.tickets \cup lastGen.mid.gps :
              x.trip_id \notin lastGen.pre_trip_ids
        /\ \A x \in lastGen.mid.exchanges :
              /\ x.rotation_assignment_id \notin lastGen.pre_assignment_ids
              /\ x.trip_id \notin lastGen.pre_trip_ids

\* The OUTBOUND trip an INBOUND trip is paired with: the trip of the same
\* assignment created just before it in the same dispatch cycle (keys follow
\* the order of creation).
PairedOutbound(t) ==
    {o \in db.trips : /\ o.id = t.id - 1
                      /\ o.direction = "OUTBOUND"
                      /\ o.rotation_assignment_id = t.rotation_assignment_id
                      /\ o.route_id = t.route_id}

\* C13: every stored INBOUND trip has its paired OUTBOUND trip and starts no
\* earlier than that trip's scheduled end plus the route's turnaround time.
C13_InboundAfterTurnaround ==
    \A t \in db.trips :
        t.direction = "INBOUND" =>
            /\ PairedOutbound(t) # {}
            /\ \A o \in PairedOutbound(t) :
                  t.scheduled_start >=
                      o.scheduled_end + routes[t.route_id].turnaround_time_minutes

\* A generated INBOUND trip on a route with a turnaround time.
C13_Witness ==
    /\ lastGen.op = "generate"
    /\ lastGen.committed
    /\ \E t \in db.trips :
          /\ t.id \in lastGen.returned
          /\ t.direction = "INBOUND"
          /\ routes[t.route_id].turnaround_time_minutes > 0
          /\ \E o \in PairedOutbound(t) :
                t.scheduled_start =
                    o.scheduled_end + routes[t.route_id].turnaround_time_minutes

\* C14: the [scheduled_start, scheduled_end) windows of two trips owned by the
\* same rotation assignment never overlap, whatever the route's duration and
\* turnaround time.
C14_NoOverlapWithinAssignment ==
    \A t, u \in db.trips :
        (t.id # u.id /\ t.rotation_assignment_id = u.rotation_assignment_id) =>
            \/ t.scheduled_end <= u.scheduled_start
            \/ u.scheduled_end <= t.scheduled_start

\* C15: every stored trip has scheduled_start < scheduled_end, for every
\* active route the generator accepts.
C15_TripStartsBeforeItEnds ==
    \A t \in db.trips : t.scheduled_start < t.scheduled_end

\* A route of the plan is eligible when its slices hold 2 drivers and 2 vehicles.
Eligible(p) == Len(p.route_drivers) >= 2 /\ Len(p.route_vehicles) >= 2

\* The trips the last call created for a route, by direction.
CreatedTrips(route_id, direction) ==
    {t \in db.trips : /\ t.id \in lastGen.returned
                      /\ t.route_id = route_id
                      /\ t.direction = direction}

\* C16: for each eligible route a committed generation creates exactly one
\* OUTBOUND trip at each of 06:00, 07:00, ..., 13:00, ending estimated minutes
\* later, and for each of them one INBOUND trip, starting at outbound end +
\* turnaround, if and only if that start is strictly before 14:00; it creates
\* no other trip for the route.
C16_DispatchCycles ==
    (lastGen.op = "generate" /\ lastGen.committed) =>
        \A k \in DOMAIN lastGen.plan :
            Eligible(lastGen.plan[k]) =>
                LET r == routes[lastGen.plan[k].route_id]
                    D == lastGen.date
                    out == CreatedTrips(lastGen.plan[k].route_id, "OUTBOUND")
                    inb == CreatedTrips(lastGen.plan[k].route_id, "INBOUND")
                    return_of(o) == {t \in inb : t \in db.trips /\ o \in PairedOutbound(t)}
                IN  /\ {o.scheduled_start : o \in out} = {At(D, h, 0) : h \in 6..13}
                    /\ Cardinality(out) = 8
                    /\ \A o \in out :
                          /\ o.scheduled_end = o.scheduled_start + r.estimated_time_minutes
                          /\ Cardinality(return_of(o)) =
                                (IF o.scheduled_end + r.turnaround_time_minutes < At(D, 14, 0)
                                 THEN 1 ELSE 0)
                          /\ \A t \in return_of(o) :
                                /\ t.scheduled_start =
                                      o.scheduled_end + r.turnaround_time_minutes
                                /\ t.scheduled_end =
                                      t.scheduled_start + r.estimated_time_minutes
                    /\ inb = UNION {return_of(o) : o \in out}

\* A generation with a 40/10 route, whose eighth INBOUND trip starts at 13:50,
\* and a 50/10 route, whose eighth INBOUND trip would start at 14:00 and is
\* not created.
C16_Witness ==
    /\ lastGen.op = "generate"
    /\ lastGen.committed
    /\ \E k, l \in DOMAIN lastGen.plan :
          LET a == lastGen.plan[k].route_id
              b == lastGen.plan[l].route_id
          IN  /\ Eligible(lastGen.plan[k]) /\ Eligible(lastGen.plan[l])
              /\ routes[a].estimated_time_minutes = 40
              /\ routes[a].turnaround_time_minutes = 10
              /\ Cardinality(CreatedTrips(a, "INBOUND")) = 8
              /\ \E t \in CreatedTrips(a, "INBOUND") :
                    t.scheduled_start = At(lastGen.date, 13, 50)
              /\ routes[b].estimated_time_minutes = 50
              /\ routes[b].turnaround_time_minutes = 10
              /\ Cardinality(CreatedTrips(b, "OUTBOUND")) = 8
              /\ Cardinality(CreatedTrips(b, "INBOUND")) = 7
              /\ \A t \in CreatedTrips(b, "INBOUND") :
                    t.scheduled_start < At(lastGen.date, 14, 0)

\* C17: a call that finds no driver that is not OFF_DUTY, or no vehicle that
\* is not OUT_OF_SERVICE, returns an empty list, creates no assignment and no
\* trip and leaves the store as it was; the empty pool is no error (the call
\* raises only when the store fails in the deletion phase of a regeneration,
\* before the pools are read).
C17_EmptyPoolReturnsEmpty ==
    [][(lastGen'.op = "generate"
          /\ (lastGen'.all_drivers = <<>> \/ lastGen'.all_vehicles = <<>>)) =>
          /\ lastGen'.returned = {}
          /\ lastGen'.created = {}
          /\ db' = db
          /\ lastGen'.result = "error" => (lastGen'.regenerate /\ ~lastGen'.deleted)]_vars

\* A regeneration of a generated date after every driver went off duty.
C17_Witness ==
    /\ lastGen.op = "generate"
    /\ lastGen.regenerate
    /\ lastGen.all_drivers = <<>>
    /\ lastGen.all_vehicles # <<>>
    /\ lastGen.result = "ok"
    /\ lastGen.returned = {}
    /\ lastGen.pre_trip_ids # {}
    /\ Ids(TripsOn(db, lastGen.date)) = lastGen.pre_trip_ids

\* The next n members of a pool after index idx, continuing from the start of
\* the pool at its end (at most the whole pool).
WrappedSlice(pool, idx, n) ==
    [j \in 1..Min(n, Len(pool)) |-> pool[((idx + j - 1) % Len(pool)) + 1]]

\* C18: with at least 2 drivers and 2 vehicles in the pools, the k-th active
\* route claims the next 3 drivers and the next 2 vehicles after the rotating
\* indices 3(k-1) and 2(k-1), wrapping modulo the pool size, so that no route
\* receives a short slice.
C18_SlicesWrapAround ==
    (lastGen.op = "generate" /\ lastGen.committed
        /\ Len(lastGen.all_drivers) >= 2 /\ Len(lastGen.all_vehicles) >= 2) =>
        \A k \in DOMAIN lastGen.plan :
            /\ lastGen.plan[k].route_drivers =
                  WrappedSlice(lastGen.all_drivers,
                               (3 * (k - 1)) % Len(lastGen.all_drivers), 3)
            /\ lastGen.plan[k].route_vehicles =
                  WrappedSlice(lastGen.all_vehicles,
                               (2 * (k - 1)) % Len(lastGen.all_vehicles), 2)

\* The assignments the last call created.
CreatedAssignments == {a \in db.assignments : a.id \in lastGen.created}

\* C19: a committed generation creates, for each eligible route, exactly two
\* assignments for the date, MORNING with shift 06:00-15:00: one at DRIVER_1
\* bound to the first driver and first vehicle of the route's slices, one at
\* DRIVER_2 bound to the second driver and second vehicle.  It creates no other
\* assignment: none at DRIVER_3, none with shift type EVENING.
C19_TwoMorningAssignments ==
    (lastGen.op = "generate" /\ lastGen.committed) =>
        /\ \A a \in CreatedAssignments :
              /\ a.shift_type = "MORNING"
              /\ a.position \in {"DRIVER_1", "DRIVER_2"}
              /\ a.shift_date = lastGen.date
              /\ a.shift_start_time = At(lastGen.date, 6, 0)
              /\ a.shift_end_time = At(lastGen.date, 15, 0)
              /\ \E k \in DOMAIN lastGen.plan :
                    Eligible(lastGen.plan[k]) /\ lastGen.plan[k].route_id = a.route_id
        /\ \A k \in DOMAIN lastGen.plan :
              Eligible(lastGen.plan[k]) =>
                  LET p == lastGen.plan[k]
                      mine == {a \in CreatedAssignments : a.route_id = p.route_id}
                  IN  /\ Cardinality(mine) = 2
                      /\ \E a \in mine : /\ a.position = "DRIVER_1"
                                          /\ a.driver_id = p.route_drivers[1]
                                          /\ a.vehicle_id = p.route_vehicles[1]
                      /\ \E a \in mine : /\ a.position = "DRIVER_2"
                                          /\ a.driver_id = p.route_drivers[2]
                                          /\ a.vehicle_id = p.route_vehicles[2]

\* A generation for a route whose slice holds three drivers, next to a manual
\* EVENING assignment at DRIVER_3 that the generation did not create.
C19_Witness ==
    /\ lastGen.op = "generate"
    /\ lastGen.committed
    /\ \E k \in DOMAIN lastGen.plan :
          /\ Len(lastGen.plan[k].route_drivers) = 3
          /\ Cardinality({a \in CreatedAssignments :
                             a.route_id = lastGen.plan[k].route_id}) = 2
    /\ \E a \in db.assignments \ CreatedAssignments :
          a.position = "DRIVER_3" /\ a.shift_type = "EVENING"

\* C20: in every committed state reached by CREATE generations, REGENERATE
\* generations and manual assignment creation, no two rotation assignments
\* share the same (route, shift_type, position, shift_date).
C20_AssignmentSlotsUnique ==
    \A a, b \in db.assignments :
        (/\ a.route_id = b.route_id
         /\ a.shift_type = b.shift_type
         /\ a.position = b.position
         /\ a.shift_date = b.shift_date) => a.id = b.id

\* A regeneration that replaced a manual assignment of the date by the
\* generated ones.
C20_Witness ==
    /\ lastGen.op = "generate"
    /\ lastGen.regenerate
    /\ lastGen.committed
    /\ lastGen.pre_assignment_ids # {}
    /\ lastGen.pre_trip_ids = {}
    /\ seq.manual > 0
    /\ \E a \in CreatedAssignments : a.route_id \in ScheduleManualRoutes
                                     /\ a.position = "DRIVER_1"

\* C27: within one generated schedule no driver and no vehicle is bound to
\* rotation assignments of two different routes.
C27_DisjointRouteCrews ==
    (lastGen.op = "generate" /\ lastGen.committed) =>
        \A a, b \in CreatedAssignments :
            a.route_id # b.route_id =>
                a.driver_id # b.driver_id /\ a.vehicle_id # b.vehicle_id

\* C28: whenever a regeneration returns normally, no trip and no assignment of
\* the date that existed before the call is in the committed store afterwards.
C28_NormalReturnCommitsDeletions ==
    (lastGen.op = "generate" /\ lastGen.regenerate /\ lastGen.result = "ok") =>
        /\ Ids(db.trips) \cap lastGen.pre_trip_ids = {}
        /\ Ids(db.assignments) \cap lastGen.pre_assignment_ids = {}

\* C29: a CREATE call for a date that has rotation assignments but no trip
\* succeeds and commits, without raising on the assignment uniqueness
\* constraint (the store itself not failing).
C29_CreateIgnoresAssignments ==
    (lastGen.op = "generate" /\ ~lastGen.regenerate /\ ~lastGen.injected
        /\ lastGen.pre_trip_ids = {} /\ lastGen.pre_assignment_ids # {}
        /\ lastGen.all_drivers # <<>> /\ lastGen.all_vehicles # <<>>) =>
        /\ lastGen.result = "ok"
        /\ lastGen.committed

\* C23: the timer job calls the generation with regenerate = false.  A timer
\* firing on a date that has trips changes nothing in the store, a timer firing
\* never deletes a trip or an assignment, and a failure inside it is caught by
\* the job with nothing committed.
C23_TimerNeverDestroys ==
    [][(lastGen'.op = "generate" /\ lastGen'.caller = "timer") =>
          /\ ~lastGen'.regenerate
          /\ db.trips \subseteq db'.trips
          /\ db.assignments \subseteq db'.assignments
          /\ TripsOn(db, lastGen'.date) # {} => db' = db
          /\ lastGen'.result = "error" => db' = db
          /\ ~lastGen'.raised]_vars

\* The timer fired on a date that has trips, tickets or other dependent rows.
C23_Witness ==
    /\ lastGen.op = "generate"
    /\ lastGen.caller = "timer"
    /\ lastGen.pre_trip_ids # {}
    /\ Ids(TripsOn(db, lastGen.date)) = lastGen.pre_trip_ids
    /\ lastGen.result = "ok"
    /\ ChildRows(db) > 0

\* C25: in a committed generation the OUTBOUND trip of dispatch cycle k (k = 0
\* at 06:00) of an eligible route belongs to the route's DRIVER_1 assignment
\* when k is even and to its DRIVER_2 assignment when k is odd, and carries
\* that assignment's driver, vehicle and route; an INBOUND trip belongs to the
\* assignment of the OUTBOUND trip created just before it; each of the two
\* assignments owns exactly 4 of the route's 8 OUTBOUND trips.
C25_AssignmentsAlternate ==
    (lastGen.op = "generate" /\ lastGen.committed) =>
        \A p \in Range(lastGen.plan) :
            Eligible(p) =>
                LET mine == {a \in CreatedAssignments : a.route_id = p.route_id}
                    out == CreatedTrips(p.route_id, "OUTBOUND")
                    inb == CreatedTrips(p.route_id, "INBOUND")
                    cycle(o) == (o.scheduled_start - At(lastGen.date, 6, 0)) \div 60
                    slot(o) == IF cycle(o) % 2 = 0 THEN "DRIVER_1" ELSE "DRIVER_2"
                IN  /\ \A o \in out : \E a \in mine :
                          /\ a.position = slot(o)
                          /\ o.rotation_assignment_id = a.id
                          /\ o.driver_id = a.driver_id
                          /\ o.vehicle_id = a.vehicle_id
                    /\ \A t \in inb : \E o \in out :
                          /\ o.id = t.id - 1
                          /\ t.rotation_assignment_id = o.rotation_assignment_id
                          /\ t.driver_id = o.driver_id
                          /\ t.vehicle_id = o.vehicle_id
                    /\ \A a \in mine :
                          Cardinality({o \in out : o.rotation_assignment_id = a.id}) = 4

\* A generation whose 07:00 trips, OUTBOUND and INBOUND, belong to DRIVER_2.
C25_Witness ==
    /\ lastGen.op = "generate"
    /\ lastGen.committed
    /\ \E a \in CreatedAssignments :
          /\ a.position = "DRIVER_2"
          /\ \E o \in CreatedTrips(a.route_id, "OUTBOUND") :
                /\ o.scheduled_start = At(lastGen.date, 7, 0)
                /\ o.rotation_assignment_id = a.id
                /\ \E t \in CreatedTrips(a.route_id, "INBOUND") :
                      t.id = o.id + 1 /\ t.rotation_assignment_id = a.id

\* C26: a run fails of itself only when its first route has 2 drivers and 2
\* vehicles, so a skip aborts nothing; and in a committed run a route whose
\* slice has fewer than 2 drivers or fewer than 2 vehicles gets no assignment
\* and no trip, the loop goes on to the routes after it, and each of them sees
\* the same slices and is skipped as well.
C26_SkipIsSticky ==
    /\ (lastGen.op = "generate" /\ lastGen.result = "error" /\ ~lastGen.injected) =>
          (Len(lastGen.all_drivers) >= 2 /\ Len(lastGen.all_vehicles) >= 2)
    /\ (lastGen.op = "generate" /\ lastGen.committed) =>
        /\ Len(lastGen.plan) = Len(ActiveRoutes)
        /\ \A k \in DOMAIN lastGen.plan :
              ~Eligible(lastGen.plan[k]) =>
                  /\ \A a \in CreatedAssignments : a.route_id # lastGen.plan[k].route_id
                  /\ CreatedTrips(lastGen.plan[k].route_id, "OUTBOUND") = {}
                  /\ CreatedTrips(lastGen.plan[k].route_id, "INBOUND") = {}
                  /\ \A l \in DOMAIN lastGen.plan :
                        l > k =>
                            /\ lastGen.plan[l].route_drivers = lastGen.plan[k].route_drivers
                            /\ lastGen.plan[l].route_vehicles = lastGen.plan[k].route_vehicles

\* A run that skipped its first route and then its second.
C26_Witness ==
    /\ lastGen.op = "generate"
    /\ lastGen.committed
    /\ Len(lastGen.plan) = 2
    /\ Len(lastGen.plan[1].route_drivers) = 1
    /\ lastGen.plan[2].route_drivers = lastGen.plan[1].route_drivers
    /\ lastGen.created = {}
    /\ lastGen.returned = {}

\* C24: a regeneration reads the ids of D's assignments and of D's trips on
\* the view no DELETE has touched yet, and sends its DELETE statements in the
\* order tickets and position logs, exchange records, trips, assignments; no
\* other statement removes a trip or an assignment; when the trips go no
\* ticket or position log points at a collected trip, and when the
\* assignments go no collected trip is left and no exchange record names a
\* collected assignment.
C24_ChildrenBeforeParents ==
    (lastGen.op = "generate" /\ lastGen.regenerate) =>
        LET log == lastGen.del_log
            rank(stmt) == CASE stmt \in {"tickets", "gps"} -> 1
                            [] stmt = "exchanges" -> 2
                            [] stmt = "trips" -> 3
                            [] stmt = "assignments" -> 4
        IN  /\ \A i, j \in DOMAIN log :
                  i < j => /\ log[i].stmt # log[j].stmt
                           /\ rank(log[i].stmt) <= rank(log[j].stmt)
            /\ log # <<>> =>
                  /\ log[1].before.trip_ids = lastGen.pre_trip_ids
                  /\ log[1].before.assignment_ids = lastGen.pre_assignment_ids
            /\ \A i \in DOMAIN log :
                  /\ (i > 1 /\ log[i - 1].stmt # "trips") =>
                        log[i].before.trip_ids = log[i - 1].before.trip_ids
                  /\ (i > 1 /\ log[i - 1].stmt # "assignments") =>
                        log[i].before.assignment_ids = log[i - 1].before.assignment_ids
                  /\ log[i].stmt = "trips" =>
                        \A x \in log[i].before.tickets \cup log[i].before.gps :
                            x.trip_id \notin lastGen.pre_trip_ids
                  /\ log[i].stmt = "assignments" =>
                        /\ log[i].before.trip_ids \cap lastGen.pre_trip_ids = {}
                        /\ \A x \in log[i].before.exchanges :
                              x.rotation_assignment_id \notin lastGen.pre_assignment_ids
            /\ lastGen.deleted =>
                  /\ lastGen.pre_trip_ids # {} =>
                        \E i \in DOMAIN log : log[i].stmt = "trips"
                  /\ lastGen.pre_assignment_ids # {} =>
                        \E i \in DOMAIN log : log[i].stmt = "assignments"

\* A regeneration that sent all five statements on a date with a child row.
C24_Witness ==
    /\ lastGen.op = "generate"
    /\ lastGen.regenerate
    /\ lastGen.deleted
    /\ Len(lastGen.del_log) = 5
    /\ \E x \in lastGen.del_log[1].before.tickets \cup lastGen.del_log[1].before.gps
                  \cup lastGen.del_log[1].before.exchanges :
          x.trip_id \in lastGen.pre_trip_ids

\* C21: of two generate_daily_schedule calls for one date in separate
\* transactions, whatever the order of their statements, a commit leaves for
\* that date exactly the assignments and the trips its own pass inserted,
\* every trip with its assignment and no two trips for one departure; a step
\* that is no commit leaves the committed store alone.
C21_OnePassPerDate ==
    [][/\ \A r \in RequestIds :
             (sessions[r].pc = "commit" /\ sessions'[r].committed) =>
                /\ TripsOn(db', sessions[r].date) = sessions[r].new.trips
                /\ AssignmentsOn(db', sessions[r].date) = sessions[r].new.assignments
                /\ \A t \in TripsOn(db', sessions[r].date) :
                      t.rotation_assignment_id \in
                          Ids(AssignmentsOn(db', sessions[r].date))
                /\ \A t, u \in TripsOn(db', sessions[r].date) :
                      (/\ t.route_id = u.route_id
                       /\ t.direction = u.direction
                       /\ t.scheduled_start = u.scheduled_start) => t = u
       /\ (/\ sessions' # sessions
           /\ \A r \in RequestIds : sessions'[r].committed = sessions[r].committed)
             => db' = db]_vars

\* Both calls are over: one committed its pass, the other one found the date
\* empty or collected the ids of the pass before and then lost on the unique
\* index.
C21_Witness ==
    \E r, q \in RequestIds :
        /\ sessions[r].pc = "done" /\ sessions[r].committed
        /\ sessions[r].new.trips # {}
        /\ sessions[q].pc = "done" /\ sessions[q].result = "error"
        /\ TripsOn(db, sessions[r].date) = sessions[r].new.trips
        /\ AssignmentsOn(db, sessions[r].date) = sessions[r].new.assignments

-----------------------------------------------------------------------------
(* Claims about the break lifecycle *)

CallDriver == lastCall.driver
PreDriver == lastCall.pre_drivers[lastCall.driver]
CurDriver == drivers[lastCall.driver]

\* C4: start_break called for a driver whose status is not ACTIVE (ON_BREAK,
\* ON_TRIP, OFF_DUTY) fails: the status does not become ON_BREAK by the call,
\* current_break_number is not incremented and no BreakLog is opened.
C4_StartOnlyFromActive ==
    (lastCall.op = "start_break" /\ PreDriver.status # "ACTIVE") =>
        /\ lastCall.result # "ok"
        /\ CurDriver.status = PreDriver.status
        /\ CurDriver.current_break_number = PreDriver.current_break_number
        /\ break_logs = lastCall.pre_logs

\* C5: in every state reached by start_break, end_break and trip completions,
\* each driver has at most one BreakLog with end_time unset.
C5_AtMostOneOpenLog ==
    \A d \in DOMAIN drivers : Cardinality(OpenLogIds(break_logs, d)) <= 1

\* C7: start_break fails with the ineligibility error whenever
\* trips_since_last_break < MIN_TRIPS_BEFORE_BREAK or break_time_remaining <= 0,
\* changing no driver field and creating no BreakLog; for an ACTIVE driver with
\* enough trips and a positive budget it succeeds and the status is ON_BREAK.
C7_EligibilityGate ==
    lastCall.op = "start_break" =>
        /\ (PreDriver.trips_since_last_break < MIN_TRIPS_BEFORE_BREAK
              \/ PreDriver.break_time_remaining <= 0) =>
              /\ lastCall.result = "IneligibleBreak"
              /\ drivers = lastCall.pre_drivers
              /\ break_logs = lastCall.pre_logs
        /\ (PreDriver.status = "ACTIVE"
              /\ PreDriver.trips_since_last_break >= MIN_TRIPS_BEFORE_BREAK
              /\ PreDriver.break_time_remaining > 0) =>
              /\ lastCall.result = "ok"
              /\ CurDriver.status = "ON_BREAK"

\* A start_break refused for an exhausted budget although a trip was completed.
C7_Witness ==
    /\ lastCall.op = "start_break"
    /\ lastCall.result = "IneligibleBreak"
    /\ PreDriver.trips_since_last_break >= MIN_TRIPS_BEFORE_BREAK
    /\ PreDriver.break_time_remaining = 0
    /\ PreDriver.status = "ACTIVE"

\* C8: a successful start_break sets status ON_BREAK and break_start_time to
\* the current time, raises current_break_number by exactly 1, adds exactly one
\* BreakLog (open, numbered with the new current_break_number) and leaves
\* trips_since_last_break, break_time_remaining and total_break_time_today,
\* every other driver and every earlier BreakLog unchanged.
C8_StartBreakEffect ==
    (lastCall.op = "start_break" /\ lastCall.result = "ok") =>
        /\ CurDriver.status = "ON_BREAK"
        /\ CurDriver.break_start_time = lastCall.time
        /\ CurDriver.current_break_number = PreDriver.current_break_number + 1
        /\ CurDriver.trips_since_last_break = PreDriver.trips_since_last_break
        /\ CurDriver.break_time_remaining = PreDriver.break_time_remaining
        /\ CurDriver.total_break_time_today = PreDriver.total_break_time_today
        /\ \A o \in DOMAIN drivers \ {CallDriver} : drivers[o] = lastCall.pre_drivers[o]
        /\ Len(break_logs) = Len(lastCall.pre_logs) + 1
        /\ SubSeq(break_logs, 1, Len(lastCall.pre_logs)) = lastCall.pre_logs
        /\ LET log == break_logs[Len(break_logs)]
           IN  /\ log.driver_id = CallDriver
               /\ log.end_time = NoTime
               /\ log.start_time = lastCall.time
               /\ log.break_number = CurDriver.current_break_number

\* A driver's second successful start_break, with trips on the counter.
C8_Witness ==
    /\ lastCall.op = "start_break"
    /\ lastCall.result = "ok"
    /\ PreDriver.status = "ACTIVE"
    /\ PreDriver.trips_since_last_break > 0
    /\ CurDriver.current_break_number = 2

\* C9: end_break fails with the not-on-break error whenever the status is not
\* ON_BREAK or break_start_time is unset, changing no driver field and no
\* BreakLog; an end_break right after a successful end_break of the same driver
\* fails.
C9_EndBreakGate ==
    lastCall.op = "end_break" =>
        /\ (PreDriver.status # "ON_BREAK" \/ PreDriver.break_start_time = NoTime) =>
              /\ lastCall.result = "NotOnBreak"
              /\ drivers = lastCall.pre_drivers
              /\ break_logs = lastCall.pre_logs
        /\ (lastCall.prev_op = "end_break" /\ lastCall.prev_result = "ok"
              /\ lastCall.prev_driver = CallDriver) =>
              lastCall.result = "NotOnBreak"

\* The second of two consecutive end_break calls, the first having succeeded.
C9_Witness ==
    /\ lastCall.op = "end_break"
    /\ lastCall.prev_op = "end_break"
    /\ lastCall.prev_result = "ok"
    /\ lastCall.prev_driver = CallDriver
    /\ lastCall.result = "NotOnBreak"

\* C10: a successful end_break d minutes after the break started sets status
\* ACTIVE, break_time_remaining to max(0, previous - d), total_break_time_today
\* to previous + d, clears break_start_time, zeroes trips_since_last_break and
\* closes the driver's most recent open BreakLog, and only it, with
\* end_time = now and duration_minutes = d.
C10_EndBreakEffect ==
    (lastCall.op = "end_break" /\ lastCall.result = "ok") =>
        LET d == lastCall.time - PreDriver.break_start_time
            open == {i \in DOMAIN lastCall.pre_logs :
                        /\ lastCall.pre_logs[i].driver_id = CallDriver
                        /\ lastCall.pre_logs[i].end_time = NoTime}
        IN  /\ CurDriver.status = "ACTIVE"
            /\ CurDriver.break_time_remaining =
                  (IF PreDriver.break_time_remaining - d < 0 THEN 0
                   ELSE PreDriver.break_time_remaining - d)
            /\ CurDriver.total_break_time_today = PreDriver.total_break_time_today + d
            /\ CurDriver.break_start_time = NoTime
            /\ CurDriver.trips_since_last_break = 0
            /\ CurDriver.current_break_number = PreDriver.current_break_number
            /\ \A o \in DOMAIN drivers \ {CallDriver} : drivers[o] = lastCall.pre_drivers[o]
            /\ \E i \in open :
                  /\ \A j \in open :
                        lastCall.pre_logs[j].start_time <= lastCall.pre_logs[i].start_time
                  /\ lastCall.pre_logs[i].start_time = PreDriver.break_start_time
                  /\ break_logs = [lastCall.pre_logs EXCEPT ![i].end_time = lastCall.time,
                                                            ![i].duration_minutes = d]

\* An end_break 22 minutes after the start with less than 22 minutes of budget
\* left: the budget is floored at 0.
C10_Witness ==
    /\ lastCall.op = "end_break"
    /\ lastCall.result = "ok"
    /\ lastCall.time - PreDriver.break_start_time = 22
    /\ PreDriver.break_time_remaining \in 1..21
    /\ CurDriver.break_time_remaining = 0
    /\ \E i \in DOMAIN break_logs : /\ break_logs[i].driver_id = CallDriver
                                    /\ break_logs[i].end_time = lastCall.time
                                    /\ break_logs[i].duration_minutes = 22

\* C30: after any sequence of start_break and end_break calls on drivers that
\* start ACTIVE with no BreakLog, a driver has an open BreakLog if and only if
\* its status is ON_BREAK, and its status is ON_BREAK if and only if its
\* break_start_time is set.
C30_OpenLogIffOnBreak ==
    \A d \in DOMAIN drivers :
        /\ (OpenLogIds(break_logs, d) # {}) <=> (drivers[d].status = "ON_BREAK")
        /\ (drivers[d].status = "ON_BREAK") <=> (drivers[d].break_start_time # NoTime)

\* C11: break_time_remaining is never negative in a state reached by
\* start_break and end_break from the default budget, however long a break
\* lasts.
C11_BudgetNeverNegative ==
    \A d \in DOMAIN drivers : drivers[d].break_time_remaining >= 0

\* A single break that lasted longer than the whole budget that was left.
C11_Witness ==
    /\ lastCall.op = "end_break"
    /\ lastCall.result = "ok"
    /\ PreDriver.break_time_remaining = DEFAULT_BREAK_TIME_REMAINING
    /\ lastCall.time - PreDriver.break_start_time > PreDriver.break_time_remaining
    /\ CurDriver.break_time_remaining = 0

\* C12: trips_since_last_break is lowered only by a successful end_break of
\* that driver, which sets it to zero: no start_break, no failed end_break and
\* no generation or regeneration of the schedule lowers it.
C12_TripsResetOnlyByEndBreak ==
    [][\A d \in DOMAIN drivers :
          drivers'[d].trips_since_last_break < drivers[d].trips_since_last_break =>
              /\ lastCall'.op = "end_break"
              /\ lastCall'.result = "ok"
              /\ lastCall'.driver = d
              /\ lastCall'.pre_drivers = drivers
              /\ drivers'[d].trips_since_last_break = 0]_vars

\* A driver on a break that kept its trips, with the schedule regenerated.
C12_Witness ==
    /\ lastCall.op = "start_break"
    /\ lastCall.result = "ok"
    /\ CurDriver.trips_since_last_break >= MIN_TRIPS_BEFORE_BREAK
    /\ CurDriver.trips_since_last_break = PreDriver.trips_since_last_break
    /\ lastGen.op = "generate"
    /\ lastGen.regenerate
    /\ lastGen.committed
    /\ lastGen.pre_trip_ids # {}

-----------------------------------------------------------------------------
(* The break endpoints as interleaved requests (api/v1/driver.py).  Each    *)
(* request owns a session: it loads the driver row, runs the service on the *)
(* loaded object and commits.  The session does not autoflush, so every     *)
(* write reaches the store at commit, as UPDATEs of the changed columns.    *)

BreakOps == {"start_break", "end_break"}

InFlight(q) == sessions[q].pc \in {"loaded", "called"}

\* select(Driver).where(Driver.user_id == current_user.id): the committed row.
request_load(r, op, d) ==
    /\ sessions[r].pc = "idle"
    /\ sessions' = [sessions EXCEPT ![r] =
          [pc |-> "loaded", op |-> op, driver |-> d, time |-> 0,
           loaded |-> drivers[d], obj |-> drivers[d], log |-> 0,
           overlap |-> {q \in RequestIds \ {r} : InFlight(q)}]]
    /\ UNCHANGED <<drivers, break_logs, now, lastCall>>
    /\ UNCHANGED genVars

\* The service call on the loaded object; a ValueError becomes HTTP 400.
request_call(r) ==
    LET s == sessions[r]
        res == IF s.op = "start_break" THEN StartBreakCheck(s.obj)
               ELSE EndBreakCheck(s.obj)
    IN  /\ s.pc = "loaded"
        /\ IF res # "ok"
           THEN sessions' = [sessions EXCEPT ![r].pc = "failed", ![r].time = now]
           ELSE IF s.op = "start_break"
           THEN sessions' = [sessions EXCEPT ![r].pc = "called", ![r].time = now,
                                ![r].obj = StartBreakDriver(s.obj, now)]
           ELSE \E i \in (IF FirstOpenLogs(break_logs, s.driver) = {} THEN {0}
                          ELSE FirstOpenLogs(break_logs, s.driver)) :
                  sessions' = [sessions EXCEPT ![r].pc = "called", ![r].time = now,
                                  ![r].obj = EndBreakDriver(s.obj, now),
                                  ![r].log = i]
        /\ UNCHANGED <<drivers, break_logs, now, lastCall>>
        /\ UNCHANGED genVars

\* The UPDATE the flush emits: the columns whose value differs from the loaded one.
FlushDriver(row, loaded, obj) ==
    [c \in DOMAIN row |-> IF obj[c] # loaded[c] THEN obj[c] ELSE row[c]]

\* db.commit(): flush the driver and the BreakLog, then commit.
request_commit(r) ==
    LET s == sessions[r]
    IN  /\ s.pc = "called"
        /\ drivers' = [drivers EXCEPT ![s.driver] = FlushDriver(@, s.loaded, s.obj)]
        /\ IF s.op = "start_break"
           THEN /\ Len(break_logs) < MaxBreaks
                /\ break_logs' = Append(break_logs, NewBreakLog(s.driver, s.obj, s.time))
           ELSE IF s.log = 0
           THEN UNCHANGED break_logs
           ELSE break_logs' = CloseLog(break_logs, s.log, s.time,
                                       EndBreakDuration(s.loaded, s.time))
        /\ sessions' = [sessions EXCEPT ![r].pc = "done"]
        /\ UNCHANGED <<now, lastCall>>
        /\ UNCHANGED genVars

InitRace == InitBreak

NextRace ==
    \/ \E r \in RequestIds, op \in BreakOps, d \in DOMAIN drivers : request_load(r, op, d)
    \/ \E r \in RequestIds : request_call(r)
    \/ \E r \in RequestIds : request_commit(r)
    \/ \E d \in DOMAIN drivers : complete_trip(d)
    \/ \E step \in TickSteps : Tick(step)

SpecRace == InitRace /\ [][NextRace]_vars

\* Two finished start_break requests for the same driver that both loaded the
\* same eligible ACTIVE row, the second while the first was in flight.
ConcurrentStarts(r1, r2) ==
    /\ r1 # r2
    /\ sessions[r1].op = "start_break" /\ sessions[r2].op = "start_break"
    /\ sessions[r1].driver = sessions[r2].driver
    /\ sessions[r1].pc \in {"done", "failed"}
    /\ sessions[r2].pc \in {"done", "failed"}
    /\ r1 \in sessions[r2].overlap
    /\ sessions[r1].loaded = sessions[r2].loaded
    /\ sessions[r1].loaded.status = "ACTIVE"
    /\ StartBreakCheck(sessions[r1].loaded) = "ok"

\* C6: of two concurrent start_break requests for the same eligible ACTIVE
\* driver exactly one succeeds and the other gets the eligibility error;
\* afterwards the driver has exactly one open BreakLog and
\* current_break_number has grown by exactly 1.
C6_ConcurrentStartOneWins ==
    \A r1, r2 \in RequestIds :
        ConcurrentStarts(r1, r2) =>
            LET d == sessions[r1].driver
            IN  /\ {sessions[r1].pc, sessions[r2].pc} = {"done", "failed"}
                /\ Cardinality(OpenLogIds(break_logs, d)) = 1
                /\ drivers[d].current_break_number =
                      sessions[r1].loaded.current_break_number + 1

\* C22: of two overlapping requests of the same kind (two start_break or two
\* end_break) for the same driver, both working on the same loaded row, the
\* first writer wins and the other fails; and a driver's current_break_number
\* always equals the number of BreakLogs opened for it.
C22_RacingCallsSerialized ==
    /\ \A r1, r2 \in RequestIds :
          (/\ r1 # r2
           /\ sessions[r1].op \in BreakOps
           /\ sessions[r1].op = sessions[r2].op
           /\ sessions[r1].driver = sessions[r2].driver
           /\ sessions[r1].pc \in {"done", "failed"}
           /\ sessions[r2].pc \in {"done", "failed"}
           /\ r1 \in sessions[r2].overlap
           /\ sessions[r1].loaded = sessions[r2].loaded) =>
              ~(sessions[r1].pc = "done" /\ sessions[r2].pc = "done")
    /\ \A d \in DOMAIN drivers :
          drivers[d].current_break_number =
              Cardinality({i \in DOMAIN break_logs : break_logs[i].driver_id = d})

====
